---- MODULE Spec2Model ----
(***************************************************************************)
(* A model of youtube_scraper.py: the command driver (main), the channel   *)
(* lister (get_channel_videos), the date enricher (get_video_upload_date,  *)
(* process_videos) and the record writer (save_to_csv).                    *)
(*                                                                         *)
(* Text is modelled as a sequence of one-character strings, so that        *)
(* startswith, "in", strip, lower and split are computed, not assumed.     *)
(***************************************************************************)
EXTENDS Integers, Sequences, FiniteSets, TLC

VARIABLES pc, args, channel_url, listed, videos, processed_videos,
          fetches, csv_file, raised, exit_code

vars == <<pc, args, channel_url, listed, videos, processed_videos,
          fetches, csv_file, raised, exit_code>>

----------------------------------------------------------------------------
(* Bounds of the model. *)

\* longest free text appended to a channel-argument prefix
MaxBody == 2
\* most fragments in the external tool's diagnostic text
MaxFragments == 2
\* most lines the external tool prints
MaxLines == 3
\* largest requested count
MaxCount == 3
\* most components of an output file name
MaxParts == 3

----------------------------------------------------------------------------
(* Text helpers: Python str operations on sequences of characters. *)

Min(a, b) == IF a < b THEN a ELSE b

Max(a, b) == IF a > b THEN a ELSE b

SeqsUpTo(S, n) == UNION {[1..k -> S] : k \in 0..n}

\* s.startswith(p)
StartsWith(s, p) == Len(s) >= Len(p) /\ SubSeq(s, 1, Len(p)) = p

\* sub in s
Contains(s, sub) ==
    \E i \in 1..(Len(s) - Len(sub) + 1) : SubSeq(s, i, i + Len(sub) - 1) = sub

Whitespace == {" ", "\t"}

\* s.strip()
Strip(s) ==
    LET keep == {i \in 1..Len(s) : s[i] \notin Whitespace}
    IN  IF keep = {} THEN <<>>
        ELSE SubSeq(s, CHOOSE i \in keep : \A j \in keep : i <= j,
                       CHOOSE i \in keep : \A j \in keep : i >= j)

\* c.lower() for the upper-case letters the diagnostic vocabulary uses
LowerChar(c) ==
    CASE c = "E" -> "e" [] c = "F" -> "f" [] c = "N" -> "n" [] c = "O" -> "o"
      [] c = "P" -> "p" [] c = "R" -> "r" [] c = "T" -> "t" [] c = "H" -> "h"
      [] OTHER -> c

\* s.lower()
Lower(s) == [i \in 1..Len(s) |-> LowerChar(s[i])]

\* s.split('T')[0]
SplitT0(s) ==
    LET ts == {i \in 1..Len(s) : s[i] = "T"}
    IN  IF ts = {} THEN s
        ELSE SubSeq(s, 1, (CHOOSE i \in ts : \A j \in ts : i <= j) - 1)

----------------------------------------------------------------------------
(* main, lines 329-354: the channel argument becomes a channel address. *)

HttpsYoutubeAt == <<"h", "t", "t", "p", "s", ":", "/", "/", "w", "w", "w", ".",
                    "y", "o", "u", "t", "u", "b", "e", ".", "c", "o", "m", "/", "@">>

HttpsYoutube == <<"h", "t", "t", "p", "s", ":", "/", "/", "w", "w", "w", ".",
                  "y", "o", "u", "t", "u", "b", "e", ".", "c", "o", "m", "/">>

HttpsWww == <<"h", "t", "t", "p", "s", ":", "/", "/", "w", "w", "w", ".">>

YoutubeAt == <<"y", "o", "u", "t", "u", "b", "e", ".", "c", "o", "m", "/", "@">>

YoutubeCom == <<"y", "o", "u", "t", "u", "b", "e", ".", "c", "o", "m">>

\* a plausible slip: any https:// address is taken as a full channel address
NormalizeAnyHttps(channel_input) ==
    IF StartsWith(channel_input, <<"h", "t", "t", "p", "s", ":", "/", "/">>)
    THEN channel_input
    ELSE IF StartsWith(channel_input, <<"@">>) THEN HttpsYoutube \o channel_input
    ELSE IF StartsWith(channel_input, YoutubeAt) THEN HttpsWww \o channel_input
    ELSE HttpsYoutube \o (<<"@">> \o channel_input)

\* a plausible slip: the bare-name branch forgets to add the "@"
NormalizeNoAt(channel_input) ==
    IF StartsWith(channel_input, HttpsYoutubeAt) THEN channel_input
    ELSE IF StartsWith(channel_input, <<"@">>) THEN HttpsYoutube \o channel_input
    ELSE IF StartsWith(channel_input, YoutubeAt) THEN HttpsWww \o channel_input
    ELSE HttpsYoutube \o channel_input

\* lines 332-345, applied to args.channel_name.strip()
NormalizeChannel(channel_input) ==
    IF StartsWith(channel_input, HttpsYoutubeAt) THEN channel_input
    ELSE IF StartsWith(channel_input, <<"@">>) THEN HttpsYoutube \o channel_input
    ELSE IF StartsWith(channel_input, YoutubeAt) THEN HttpsWww \o channel_input
    ELSE HttpsYoutube \o
            (IF ~StartsWith(channel_input, <<"@">>)
             THEN <<"@">> \o channel_input
             ELSE channel_input)

\* line 348: the condition of the usage-error exit
MalformedChannel(url) == ~Contains(url, <<"@">>) \/ ~Contains(url, YoutubeCom)

----------------------------------------------------------------------------
(* get_channel_videos, lines 109-146. *)

NotFound == <<"n", "o", "t", " ", "f", "o", "u", "n", "d">>

NotFoundPhrases ==
    { NotFound,
      <<"d", "o", "e", "s", " ", "n", "o", "t", " ", "e", "x", "i", "s", "t">>,
      <<"4", "0", "4">>,
      <<"c", "h", "a", "n", "n", "e", "l", " ", "n", "o", "t", " ", "f", "o", "u", "n", "d">>,
      <<"n", "o", "t", " ", "a", "v", "a", "i", "l", "a", "b", "l", "e">>,
      <<"p", "r", "i", "v", "a", "t", "e">>,
      <<"d", "o", "e", "s", " ", "n", "o", "t", " ", "h", "a", "v", "e">> }

NetworkPhrases ==
    { <<"n", "e", "t", "w", "o", "r", "k">>,
      <<"t", "i", "m", "e", "o", "u", "t">>,
      <<"c", "o", "n", "n", "e", "c", "t", "i", "o", "n">>,
      <<"r", "e", "s", "o", "l", "v", "e">> }

\* a plausible slip: the connectivity phrases are tested first
ClassifyNetworkFirst(stderr_text) ==
    LET stderr == Lower(stderr_text)
    IN  IF \E phrase \in NetworkPhrases : Contains(stderr, phrase) THEN "network"
        ELSE IF \E phrase \in NotFoundPhrases : Contains(stderr, phrase) THEN "not_found"
        ELSE "unknown"

\* lines 113-120: the kind of the ChannelError raised on a non-zero exit status
ClassifyStderr(stderr_text) ==
    LET stderr == Lower(stderr_text)
    IN  IF \E phrase \in NotFoundPhrases : Contains(stderr, phrase) THEN "not_found"
        ELSE IF \E phrase \in NetworkPhrases : Contains(stderr, phrase) THEN "network"
        ELSE "unknown"

\* A line of the tool's standard output is one of: whitespace only ("blank"),
\* text json.loads rejects ("bad"), or a JSON object ("noid" carries no 'id'
\* key). yt-dlp --print-json prints one JSON object per entry.
LineKinds == {"blank", "bad", "noid", "v1", "v2"}

\* line.strip() is empty
IsBlank(line) == line = "blank"

\* json.loads(line) raises JSONDecodeError
JsonFails(line) == line = "bad"

\* json.loads(line): the dict of a JSON object line
JsonLoads(line) ==
    IF line = "noid" THEN [title |-> "untitled"]
    ELSE [id |-> line, title |-> "title"]

\* dict.get(key, default)
DictGet(d, key, default) == IF key \in DOMAIN d THEN d[key] ELSE default

\* line 122: result.stdout.strip().split('\n'); strip() removes the leading
\* and trailing whitespace-only lines, and ''.split('\n') is ['']
StripSplit(stdout) ==
    LET keep == {i \in 1..Len(stdout) : ~IsBlank(stdout[i])}
    IN  IF keep = {} THEN <<"blank">>
        ELSE SubSeq(stdout, CHOOSE i \in keep : \A j \in keep : i <= j,
                            CHOOSE i \in keep : \A j \in keep : i >= j)

\* lines[:count], Python slice semantics (a negative count drops from the end)
SliceTo(lines, count) ==
    IF count >= 0 THEN SubSeq(lines, 1, Min(count, Len(lines)))
    ELSE SubSeq(lines, 1, Max(Len(lines) + count, 0))

Parseable(line) == ~IsBlank(line) /\ ~JsonFails(line)

RECURSIVE LoadAll(_)
LoadAll(ls) ==
    IF ls = <<>> THEN <<>>
    ELSE IF Parseable(Head(ls)) THEN <<JsonLoads(Head(ls))>> \o LoadAll(Tail(ls))
    ELSE LoadAll(Tail(ls))

\* lines 126-133: the loop over lines[:count]
ParseListing(lines, count) == LoadAll(SliceTo(lines, count))

\* The external tool's run, as subprocess.run ends: it returns a completed
\* process, or raises TimeoutExpired, another Exception (OSError), or the
\* user interrupts it.
Completed(returncode, stdout, stderr) ==
    [kind |-> "completed", returncode |-> returncode, stdout |-> stdout, stderr |-> stderr]

Raising(kind) == [kind |-> kind, returncode |-> 0, stdout |-> <<>>, stderr |-> <<>>]

\* the "simpler variant": an empty listing is returned, not raised
ListingSilentEmpty(run, count) ==
    IF run.kind = "TimeoutExpired" THEN [error |-> "timeout", videos |-> <<>>]
    ELSE IF run.kind = "OSError" THEN [error |-> "unknown", videos |-> <<>>]
    ELSE IF run.kind = "KeyboardInterrupt" THEN [error |-> "KeyboardInterrupt", videos |-> <<>>]
    ELSE IF run.returncode # 0 THEN [error |-> ClassifyStderr(run.stderr), videos |-> <<>>]
    ELSE [error |-> "none", videos |-> ParseListing(StripSplit(run.stdout), count)]

\* lines 109-146: what get_channel_videos returns or raises for a tool run
Listing(run, count) ==
    IF run.kind = "TimeoutExpired" THEN [error |-> "timeout", videos |-> <<>>]
    ELSE IF run.kind = "OSError" THEN [error |-> "unknown", videos |-> <<>>]
    ELSE IF run.kind = "KeyboardInterrupt" THEN [error |-> "KeyboardInterrupt", videos |-> <<>>]
    ELSE IF run.returncode # 0 THEN [error |-> ClassifyStderr(run.stderr), videos |-> <<>>]
    ELSE LET lines == StripSplit(run.stdout)
             vs == ParseListing(lines, count)
         IN  IF \A i \in 1..Len(lines) : IsBlank(lines[i])
             THEN [error |-> "no_videos", videos |-> <<>>]
             ELSE IF vs = <<>> THEN [error |-> "parse_error", videos |-> <<>>]
             ELSE [error |-> "none", videos |-> vs]

----------------------------------------------------------------------------
(* get_video_upload_date, lines 158-183, and process_videos, lines 195-217. *)

Unknown == <<"U", "n", "k", "n", "o", "w", "n">>

\* Python's None, told apart from every text
None == <<"<None>">>

DateOnly == <<"2", "0", "2", "3", "-", "0", "5", "-", "0", "1">>

DateTime == <<"2", "0", "2", "3", "-", "0", "5", "-", "0", "1", "T",
              "1", "0", ":", "0", "0", ":", "0", "0", "Z">>

\* The text a date pattern captures: "([^"]+)" is at least one character and
\* holds no quote. A date, a date with a time, a time alone, other text.
Captures == { DateOnly, DateTime, <<"T", "1", "0", ":", "0", "0">>,
              <<"M", "a", "y", " ", "1">> }

\* A fetched page body, by what each of the two patterns finds in it: the
\* text captured at its first match, or None when it matches nowhere.
Pages == [uploadDate : Captures \cup {None}, datePublished : Captures \cup {None}]

NoPage == [uploadDate |-> None, datePublished |-> None]

\* The page fetch of lines 161-163 returns a body or raises.
FetchOutcomes ==
    {[kind |-> k, page |-> NoPage] : k \in {"URLError", "timeout", "UnicodeDecodeError",
                                            "KeyboardInterrupt"}}
    \cup {[kind |-> "page", page |-> p] : p \in Pages}

\* re.search(r'"<key>":"([^"]+)"', html): group(1) of the match, or None
ReSearch(page, key) == page[key]

\* a plausible slip: a failed fetch or a missing uploadDate yields a
\* placeholder instead of None, and the fallback pattern is not tried
UploadDateNoFallback(fetch) ==
    IF fetch.kind # "page" THEN <<"?">>
    ELSE IF ReSearch(fetch.page, "uploadDate") # None
         THEN SplitT0(ReSearch(fetch.page, "uploadDate"))
         ELSE <<"?">>

\* lines 160-183: the value get_video_upload_date returns (None on any
\* Exception; KeyboardInterrupt is no Exception and is handled by the caller)
UploadDate(fetch) ==
    IF fetch.kind # "page" THEN None
    ELSE IF ReSearch(fetch.page, "uploadDate") # None
         THEN SplitT0(ReSearch(fetch.page, "uploadDate"))
         ELSE IF ReSearch(fetch.page, "datePublished") # None
              THEN SplitT0(ReSearch(fetch.page, "datePublished"))
              ELSE None

\* line 212: upload_date or 'Unknown'
OrUnknown(upload_date) ==
    IF upload_date = None \/ upload_date = <<>> THEN Unknown ELSE upload_date

WatchUrl == "https://www.youtube.com/watch?v="

\* lines 198-213: the record process_videos builds for one video
ProcessedVideo(video, fetch) ==
    [ title       |-> DictGet(video, "title", ""),
      video_id    |-> DictGet(video, "id", ""),
      url         |-> <<WatchUrl, DictGet(video, "id", "")>>,
      upload_date |-> OrUnknown(UploadDate(fetch)) ]

----------------------------------------------------------------------------
(* save_to_csv, lines 227-254. *)

\* The output file name as pathlib reads it: absolute or not, and its
\* components; given is FALSE when no --output was passed (None). The empty
\* name '' is given, relative, with no components.
PartNames == {"..", "a", "x.csv"}

OutputNames ==
    {[given |-> TRUE, absolute |-> ab, parts |-> ps] :
        ab \in BOOLEAN, ps \in SeqsUpTo(PartNames, MaxParts)}

NoOutput == [given |-> FALSE, absolute |-> FALSE, parts |-> <<>>]

\* line 278: if output_file
Truthy(output) == output.given /\ (output.absolute \/ output.parts # <<>>)

\* line 41: the directory of the script
ScriptDir == <<"app">>

\* line 42
CsvDir == ScriptDir \o <<"yt-csv">>

\* Path(output_file).name
PathName(output) ==
    IF output.parts = <<>> THEN <<>> ELSE <<output.parts[Len(output.parts)]>>

\* lines 228-232
OutputPath(output) ==
    IF ~output.absolute THEN CsvDir \o output.parts
    ELSE CsvDir \o PathName(output)

\* The file the operating system opens for a path: ".." steps to the parent
\* (the parent of the root is the root).
RECURSIVE Resolve(_)
Resolve(path) ==
    IF path = <<>> THEN <<>>
    ELSE LET front == Resolve(SubSeq(path, 1, Len(path) - 1))
             last == path[Len(path)]
         IN  IF last = ".."
             THEN (IF front = <<>> THEN <<>> ELSE SubSeq(front, 1, Len(front) - 1))
             ELSE Append(front, last)

\* The root, the script's directory and yt-csv exist as directories:
\* open(..., 'w') on one of them raises.
IsKnownDirectory(file) == Len(file) <= Len(CsvDir) /\ SubSeq(CsvDir, 1, Len(file)) = file

NoFile == [path |-> <<>>, rows |-> 0, open |-> FALSE]

----------------------------------------------------------------------------
(* The inputs: command lines, tool runs. *)

\* Fragments of the tool's diagnostic text, in the letter case yt-dlp and
\* the network stack print them; "not" and " found" join into a phrase.
Fragments ==
    { <<"E", "R", "R", "O", "R", ":", " ">>,
      <<"N", "o", "t", " ", "F", "o", "u", "n", "d">>,
      <<"d", "o", "e", "s", " ", "n", "o", "t", " ", "e", "x", "i", "s", "t">>,
      <<"H", "T", "T", "P", " ", "4", "0", "4">>,
      <<"n", "o", "t", " ", "a", "v", "a", "i", "l", "a", "b", "l", "e">>,
      <<"P", "r", "i", "v", "a", "t", "e">>,
      <<"d", "o", "e", "s", " ", "n", "o", "t", " ", "h", "a", "v", "e">>,
      <<"n", "e", "t", "w", "o", "r", "k">>,
      <<"T", "i", "m", "e", "o", "u", "t">>,
      <<"c", "o", "n", "n", "e", "c", "t", "i", "o", "n">>,
      <<"r", "e", "s", "o", "l", "v", "e">>,
      <<"n", "o", "t">>,
      <<" ", "f", "o", "u", "n", "d">> }

RECURSIVE Flatten(_)
Flatten(ss) == IF ss = <<>> THEN <<>> ELSE Head(ss) \o Flatten(Tail(ss))

StderrTexts == {Flatten(fs) : fs \in SeqsUpTo(Fragments, MaxFragments)}

ToolRuns ==
    {Raising(k) : k \in {"TimeoutExpired", "OSError", "KeyboardInterrupt"}}
    \cup {Completed(1, <<>>, e) : e \in StderrTexts}
    \cup {Completed(0, out, <<>>) : out \in SeqsUpTo(LineKinds, MaxLines)}

\* --count is any integer (type=int): negative, zero or positive
Counts == (0 - 1)..MaxCount

\* Channel arguments: a known prefix, then free text, with or without
\* surrounding whitespace.
ChannelPrefixes ==
    { <<>>, <<"@">>, YoutubeAt, HttpsYoutubeAt, HttpsYoutube,
      <<"y", "o", "u", "t", "u", "b", "e", ".", "c", "o", "m", "/">>,
      <<"w", "w", "w", ".">> \o YoutubeAt,
      <<"h", "t", "t", "p", ":", "/", "/", "w", "w", "w", ".">> \o YoutubeAt,
      <<"h", "t", "t", "p", "s", ":", "/", "/">> \o YoutubeAt,
      <<"h", "t", "t", "p", "s", ":", "/", "/", "v", "i", "m", "e", "o", ".", "c", "o", "m", "/">> }

BodyChars == {"a", "b", "@", "/", " "}

ChannelNames ==
    {lead \o prefix \o body \o trail :
        lead \in {<<>>, <<" ">>}, prefix \in ChannelPrefixes,
        body \in SeqsUpTo(BodyChars, MaxBody), trail \in {<<>>, <<"\t">>}}

\* the command lines of the whole-program specification
MainChannels == { <<"a", "b">>, <<" ", "@", "a", "b">> }

MainOutputs ==
    { NoOutput,
      [given |-> TRUE, absolute |-> FALSE, parts |-> <<>>],
      [given |-> TRUE, absolute |-> FALSE, parts |-> <<"x.csv">>] }

NoArgs == [action |-> "none", channel_name |-> <<>>, count |-> 0, output |-> NoOutput]

NoRaise == [exc |-> "none", error_type |-> "none"]

Raise(exc) == [exc |-> exc, error_type |-> "none"]

ChannelError(error_type) == [exc |-> "ChannelError", error_type |-> error_type]

----------------------------------------------------------------------------
(* The program. pc is the position in main. *)

\* What is remembered of the tool run once get_channel_videos has ended: how
\* subprocess.run ended, the exit status, the diagnostic text, the number of
\* lines of line 122 and how many lines of the output are parseable JSON.
Seen(run) ==
    [ kind       |-> run.kind,
      returncode |-> run.returncode,
      stderr     |-> run.stderr,
      lines      |-> Len(StripSplit(run.stdout)),
      parseable  |-> Cardinality({i \in 1..Len(run.stdout) : Parseable(run.stdout[i])}) ]

NotListed == [kind |-> "none", returncode |-> 0, stderr |-> <<>>, lines |-> 0, parseable |-> 0]

NoFetch == [count |-> 0, last |-> "none"]

Init ==
    /\ pc = "parse_args"
    /\ args = NoArgs
    /\ channel_url = <<>>
    /\ listed = NotListed
    /\ videos = <<>>
    /\ processed_videos = <<>>
    /\ fetches = NoFetch
    /\ csv_file = NoFile
    /\ raised = NoRaise
    /\ exit_code = 0 - 1

\* line 327: parser.parse_args(). --version (lines 321-325) and --help print
\* and exit with status 0; a missing channel or a non-integer count exits
\* with status 2; otherwise the arguments are stored.
ParseArgs ==
    /\ pc = "parse_args"
    /\ \/ /\ \E flag \in {"version", "help"} : args' = [NoArgs EXCEPT !.action = flag]
          /\ pc' = "exited"
          /\ raised' = Raise("SystemExit")
          /\ exit_code' = 0
       \/ /\ args' = [NoArgs EXCEPT !.action = "error"]
          /\ pc' = "exited"
          /\ raised' = Raise("SystemExit")
          /\ exit_code' = 2
       \/ /\ \E ch \in MainChannels, n \in Counts, out \in MainOutputs :
                args' = [action |-> "store", channel_name |-> ch, count |-> n, output |-> out]
          /\ pc' = "normalize"
          /\ UNCHANGED <<raised, exit_code>>
    /\ UNCHANGED <<channel_url, listed, videos, processed_videos, fetches, csv_file>>

\* lines 329-354
Normalize ==
    /\ pc = "normalize"
    /\ channel_url' = NormalizeChannel(Strip(args.channel_name))
    /\ IF MalformedChannel(channel_url')
       THEN pc' = "exited" /\ raised' = Raise("SystemExit") /\ exit_code' = 1
       ELSE pc' = "init_scraper" /\ UNCHANGED <<raised, exit_code>>
    /\ UNCHANGED <<args, listed, videos, processed_videos, fetches, csv_file>>

\* lines 357-365 and 38-87: YouTubeScraper() finds yt-dlp, or raises
\* FileNotFoundError (caught, sys.exit(1)), or mkdir of line 43 raises
\* PermissionError, which no clause catches: the interpreter exits with 1
InitScraper ==
    /\ pc = "init_scraper"
    /\ \E how \in {"found", "FileNotFoundError", "PermissionError"} :
          IF how = "found"
          THEN pc' = "get_channel_videos" /\ UNCHANGED <<raised, exit_code>>
          ELSE pc' = "exited" /\ raised' = Raise(how) /\ exit_code' = 1
    /\ UNCHANGED <<args, channel_url, listed, videos, processed_videos, fetches, csv_file>>

\* line 272 and lines 103-146
GetChannelVideos ==
    /\ pc = "get_channel_videos"
    /\ \E run \in ToolRuns :
          LET listing == Listing(run, args.count)
          IN  /\ listed' = Seen(run)
              /\ IF listing.error = "none"
                 THEN /\ videos' = listing.videos
                      /\ pc' = "process_videos"
                      /\ UNCHANGED raised
                 ELSE /\ raised' = IF listing.error = "KeyboardInterrupt"
                                   THEN Raise("KeyboardInterrupt")
                                   ELSE ChannelError(listing.error)
                      /\ pc' = "except"
                      /\ UNCHANGED videos
    /\ UNCHANGED <<args, channel_url, processed_videos, fetches, csv_file, exit_code>>

\* What a fetch did, read off the fetch itself: it was interrupted, it
\* failed, neither pattern matched the page, or one did.
FetchClass(fetch_outcome) ==
    IF fetch_outcome.kind = "KeyboardInterrupt" THEN "interrupted"
    ELSE IF fetch_outcome.kind # "page" THEN "failed"
    ELSE IF fetch_outcome.page.uploadDate = None /\ fetch_outcome.page.datePublished = None
         THEN "no_pattern"
         ELSE "pattern"

\* lines 197-215: one turn of the loop of process_videos, one page fetch
ProcessVideo ==
    /\ pc = "process_videos"
    /\ Len(processed_videos) < Len(videos)
    /\ \E fetch \in FetchOutcomes :
          /\ fetches' = [count |-> fetches.count + 1, last |-> FetchClass(fetch)]
          /\ IF fetch.kind = "KeyboardInterrupt"
             THEN /\ raised' = Raise("KeyboardInterrupt")
                  /\ pc' = "except"
                  /\ UNCHANGED processed_videos
             ELSE /\ processed_videos' =
                        Append(processed_videos,
                               ProcessedVideo(videos[Len(processed_videos) + 1], fetch))
                  /\ UNCHANGED <<pc, raised>>
    /\ UNCHANGED <<args, channel_url, listed, videos, csv_file, exit_code>>

\* lines 217, 277-281 and 227-254: process_videos returns and scrape_channel
\* saves the records when an output file was asked for
SaveToCsv ==
    /\ pc = "process_videos"
    /\ Len(processed_videos) = Len(videos)
    /\ IF ~Truthy(args.output)
       THEN pc' = "summary" /\ UNCHANGED <<csv_file, raised>>
       ELSE LET file == Resolve(OutputPath(args.output))
            IN  \E how \in {"written", "OSError", "KeyboardInterrupt"} :
                   /\ IsKnownDirectory(file) => how = "OSError"
                   /\ IF how = "written"
                      THEN /\ csv_file' = [path |-> file, rows |-> Len(processed_videos),
                                           open |-> TRUE]
                           /\ pc' = "summary"
                           /\ UNCHANGED raised
                      ELSE IF how = "OSError"
                      THEN /\ raised' = Raise("Exception")
                           /\ pc' = "except"
                           /\ UNCHANGED csv_file
                      ELSE /\ \E k \in 0..Len(processed_videos) :
                                 csv_file' = [path |-> file, rows |-> k, open |-> TRUE]
                           /\ raised' = Raise("KeyboardInterrupt")
                           /\ pc' = "except"
    /\ UNCHANGED <<args, channel_url, listed, videos, processed_videos, fetches, exit_code>>

\* lines 374-378: the summary is printed and main returns
Summary ==
    /\ pc = "summary"
    /\ pc' = "exited"
    /\ exit_code' = 0
    /\ UNCHANGED <<args, channel_url, listed, videos, processed_videos, fetches,
                   csv_file, raised>>

\* a plausible slip: the KeyboardInterrupt clause leaves with status 0
MainExceptInterruptZero ==
    /\ pc = "except"
    /\ raised.exc \in {"ChannelError", "KeyboardInterrupt", "Exception"}
    /\ pc' = "exited"
    /\ exit_code' = IF raised.exc = "KeyboardInterrupt" THEN 0 ELSE 1
    /\ UNCHANGED <<args, channel_url, listed, videos, processed_videos, fetches,
                   csv_file, raised>>

\* lines 380-405: each except clause of main ends in sys.exit(1)
MainExcept ==
    /\ pc = "except"
    /\ raised.exc \in {"ChannelError", "KeyboardInterrupt", "Exception"}
    /\ pc' = "exited"
    /\ exit_code' = 1
    /\ UNCHANGED <<args, channel_url, listed, videos, processed_videos, fetches,
                   csv_file, raised>>

Next ==
    \/ ParseArgs
    \/ Normalize
    \/ InitScraper
    \/ GetChannelVideos
    \/ ProcessVideo
    \/ SaveToCsv
    \/ Summary
    \/ MainExcept

Spec == Init /\ [][Next]_vars

----------------------------------------------------------------------------
(* The channel argument alone: main from line 329 to line 354, for every  *)
(* channel argument of ChannelNames, with the default count and no output. *)

InitNormalize ==
    /\ pc = "normalize"
    /\ \E ch \in ChannelNames :
          args = [action |-> "store", channel_name |-> ch, count |-> 10, output |-> NoOutput]
    /\ channel_url = <<>>
    /\ listed = NotListed
    /\ videos = <<>>
    /\ processed_videos = <<>>
    /\ fetches = NoFetch
    /\ csv_file = NoFile
    /\ raised = NoRaise
    /\ exit_code = 0 - 1

NextNormalize == Normalize

SpecNormalize == InitNormalize /\ [][NextNormalize]_vars

(* The record writer alone: scrape_channel from line 277, for every output *)
(* file name of OutputNames, after a listing whose date fetches timed out.  *)

TimedOut == [kind |-> "timeout", page |-> NoPage]

InitSave ==
    /\ pc = "process_videos"
    /\ \E out \in OutputNames :
          args = [action |-> "store", channel_name |-> <<"@", "a", "b">>, count |-> 10,
                  output |-> out]
    /\ channel_url = NormalizeChannel(<<"@", "a", "b">>)
    /\ \E stdout \in {<<"v1">>, <<"v1", "v2">>} :
          /\ listed = Seen(Completed(0, stdout, <<>>))
          /\ videos = Listing(Completed(0, stdout, <<>>), 10).videos
          /\ processed_videos =
                [i \in 1..Len(stdout) |-> ProcessedVideo(JsonLoads(stdout[i]), TimedOut)]
          /\ fetches = [count |-> Len(stdout), last |-> "failed"]
    /\ csv_file = NoFile
    /\ raised = NoRaise
    /\ exit_code = 0 - 1

NextSave ==
    \/ SaveToCsv
    \/ Summary
    \/ MainExcept

SpecSave == InitSave /\ [][NextSave]_vars

----------------------------------------------------------------------------
(* The claims. *)

\* C1: when get_channel_videos returns for a requested count N >= 1, the
\* number of records (and the number process_videos produces) is
\* min(N, parseable non-blank lines, M), whatever lines stand among the first N.
C1_CountIsMin ==
    LET m == Min(Min(args.count, listed.parseable), listed.lines)
    IN  args.count >= 1 =>
            /\ pc = "process_videos" => Len(videos) = m
            /\ pc = "summary" => Len(processed_videos) = m

Digits == {"0", "1", "2", "3", "4", "5", "6", "7", "8", "9"}

\* a well-formed YYYY-MM-DD text
IsDate(s) ==
    /\ Len(s) = 10
    /\ s[5] = "-" /\ s[8] = "-"
    /\ \A i \in {1, 2, 3, 4, 6, 7, 9, 10} : s[i] \in Digits

\* C2: the upload_date of every record is a well-formed YYYY-MM-DD text or
\* 'Unknown', never empty and never other text.
C2_DateWellFormed ==
    \A i \in 1..Len(processed_videos) :
        \/ processed_videos[i].upload_date = Unknown
        \/ IsDate(processed_videos[i].upload_date)

\* C3: the file opened for writing lives under yt-csv, whatever the output
\* file name; of an absolute name only the base name is used.
C3_UnderCsvDir ==
    csv_file.open =>
        /\ Len(csv_file.path) > Len(CsvDir)
        /\ SubSeq(csv_file.path, 1, Len(CsvDir)) = CsvDir
        /\ args.output.absolute => csv_file.path = CsvDir \o PathName(args.output)

\* the listing step has ended without a list of videos
ListingFailed ==
    /\ listed.kind # "none"
    /\ listed.kind # "completed" \/ listed.returncode # 0 \/ videos = <<>>

\* C4: when the listing step fails no date fetch is issued and no file is
\* opened; when it succeeds, an output file was asked for and nothing but
\* date lookups failed, the file is written with one row per listed video.
C4_FileOnlyAfterListing ==
    /\ ListingFailed =>
          /\ fetches.count = 0
          /\ ~csv_file.open
          /\ processed_videos = <<>>
          /\ pc \in {"except", "exited"}
          /\ exit_code # 0
    /\ ( /\ ~ListingFailed
         /\ pc \in {"summary", "exited"}
         /\ args.action = "store"
         /\ raised = NoRaise
         /\ listed.kind = "completed"
         /\ Truthy(args.output) )
       => /\ csv_file.open
          /\ csv_file.rows = Len(videos)
          /\ csv_file.rows >= 1

C4_Witness ==
    /\ pc = "exited"
    /\ csv_file.open
    /\ csv_file.rows = 3
    /\ \A i \in 1..3 : processed_videos[i].upload_date = Unknown
    /\ fetches.last = "failed"

C6_IdNonEmpty ==
    \A i \in 1..Len(processed_videos) : processed_videos[i].video_id # ""

\* the pipeline ran to its end: listed, every video processed, the file
\* written when one was asked for
PipelineCompleted ==
    /\ listed.kind = "completed" /\ listed.returncode = 0
    /\ Len(processed_videos) = Len(videos)
    /\ Truthy(args.output) => csv_file.open /\ csv_file.rows = Len(videos)

NonZeroOutcomes ==
    /\ (pc = "exited" /\ raised.exc \in {"ChannelError", "KeyboardInterrupt", "Exception",
                                         "FileNotFoundError", "PermissionError"}) =>
          exit_code >= 1
    /\ (pc = "exited" /\ args.action = "error") => exit_code >= 1
    /\ (pc = "exited" /\ args.action = "store" /\ MalformedChannel(channel_url)) =>
          exit_code >= 1
    /\ (pc = "exited" /\ args.action = "store" /\ ~PipelineCompleted) => exit_code >= 1

\* C7, as stated: exit code 0 only when the pipeline completed with at least
\* one processed record, non-zero on every other outcome.
C7_ZeroOnlyWithRecords ==
    /\ exit_code = 0 => PipelineCompleted /\ Len(processed_videos) >= 1
    /\ NonZeroOutcomes

\* C7, amended: but for --help and --version, which exit 0 inside parse_args,
\* exit code 0 only when the pipeline completed with at least one processed
\* record, non-zero on every other outcome.
C7_ZeroOnlyWithRecordsOrInfo ==
    /\ exit_code = 0 =>
          \/ args.action \in {"version", "help"}
          \/ (args.action = "store" /\ PipelineCompleted /\ Len(processed_videos) >= 1
              /\ raised = NoRaise)
    /\ NonZeroOutcomes

C7_Witness ==
    /\ pc = "exited"
    /\ exit_code = 0
    /\ args.action = "store"
    /\ Len(processed_videos) = 3
    /\ csv_file.open
    /\ csv_file.rows = 3

\* handles: the text after the "@"
Handles == SeqsUpTo({"a", "b"}, MaxBody)

ChannelForms(foo) ==
    { <<"@">> \o foo, foo, YoutubeAt \o foo, HttpsYoutubeAt \o foo }

\* C8: '@foo', 'foo', 'youtube.com/@foo' and 'https://www.youtube.com/@foo',
\* with or without surrounding whitespace, all normalize to
\* 'https://www.youtube.com/@foo'.
C8_FormsAgree ==
    pc # "normalize" =>
        \A foo \in Handles, lead \in {<<>>, <<" ">>}, trail \in {<<>>, <<"\t">>} :
            \A form \in ChannelForms(foo) :
                args.channel_name = lead \o form \o trail =>
                    channel_url = HttpsYoutubeAt \o foo

C8_Witness ==
    /\ pc = "init_scraper"
    /\ args.channel_name = <<" ">> \o YoutubeAt \o <<"a", "b">> \o <<"\t">>
    /\ channel_url = HttpsYoutubeAt \o <<"a", "b">>

\* the not-found phrases and the connectivity phrases, as the claim lists them
ClaimedNotFound ==
    { <<"n", "o", "t", " ", "f", "o", "u", "n", "d">>,
      <<"d", "o", "e", "s", " ", "n", "o", "t", " ", "e", "x", "i", "s", "t">>,
      <<"4", "0", "4">>,
      <<"n", "o", "t", " ", "a", "v", "a", "i", "l", "a", "b", "l", "e">>,
      <<"p", "r", "i", "v", "a", "t", "e">>,
      <<"d", "o", "e", "s", " ", "n", "o", "t", " ", "h", "a", "v", "e">> }

ClaimedNetwork ==
    { <<"n", "e", "t", "w", "o", "r", "k">>,
      <<"t", "i", "m", "e", "o", "u", "t">>,
      <<"c", "o", "n", "n", "e", "c", "t", "i", "o", "n">>,
      <<"r", "e", "s", "o", "l", "v", "e">> }

HasAny(text, phrases) == \E phrase \in phrases : Contains(Lower(text), phrase)

\* C9: on a non-zero exit status one ChannelError is raised, not_found if the
\* lower-cased diagnostic holds a not-found phrase, otherwise network if it
\* holds a connectivity phrase, otherwise unknown; a subprocess timeout is
\* classified timeout.
C9_Classified ==
    /\ (listed.kind = "completed" /\ listed.returncode # 0) =>
          /\ raised.exc = "ChannelError"
          /\ raised.error_type = "not_found" <=> HasAny(listed.stderr, ClaimedNotFound)
          /\ raised.error_type = "network" <=>
                (~HasAny(listed.stderr, ClaimedNotFound) /\ HasAny(listed.stderr, ClaimedNetwork))
          /\ raised.error_type = "unknown" <=>
                (~HasAny(listed.stderr, ClaimedNotFound) /\ ~HasAny(listed.stderr, ClaimedNetwork))
    /\ listed.kind = "TimeoutExpired" => raised = ChannelError("timeout")

C9_Witness ==
    /\ raised = ChannelError("not_found")
    /\ listed.returncode # 0
    /\ listed.stderr = <<"T", "i", "m", "e", "o", "u", "t">> \o <<"P", "r", "i", "v", "a", "t", "e">>

\* C10: the address main computes always begins with
\* 'https://www.youtube.com/@', so the usage-error exit is never taken and
\* every channel argument goes on to the tool lookup.
C10_AlwaysCanonicalPrefix ==
    pc # "normalize" =>
        /\ StartsWith(channel_url, HttpsYoutubeAt)
        /\ ~MalformedChannel(channel_url)
        /\ pc = "init_scraper"
        /\ exit_code = 0 - 1

C10_Witness ==
    /\ pc = "init_scraper"
    /\ StartsWith(args.channel_name,
                  <<"h", "t", "t", "p", "s", ":", "/", "/", "v", "i", "m", "e", "o", ".", "c", "o", "m", "/">>)
    /\ ~Contains(args.channel_name, <<"@">>)

====
